---------------------------- MODULE Spec2Model ----------------------------
(* A model of package money (src/money.go): the Money value type, its      *)
(* comparisons, its copy-producing arithmetic, and the leftover-fair       *)
(* distribution methods Split and Allocate.                                *)
(*                                                                         *)
(* Money values live on a heap (a sequence of records, an address is an    *)
(* index), because the methods take and return *Money: a result is a new   *)
(* object, and the leftover loops of Split and Allocate write through the  *)
(* pointers they hold.  Integers keep a width: int64, int and uint are     *)
(* all Width bits wide (64 in the program, scaled down here), and every    *)
(* arithmetic result wraps the way Go's does.                              *)
EXTENDS Integers, Sequences, FiniteSets, TLC

VARIABLES heap, ret

vars == <<heap, ret>>

(***************************************************************************)
(* Integer widths                                                          *)
(***************************************************************************)

\* The width in bits of int64, int and uint, scaled down from 64.
Width == 4

\* The longest ratio list handed to Allocate.
MaxLen == 3

Modulus == 2 ^ Width

MaxInt == 2 ^ (Width - 1) - 1

MinInt == -(2 ^ (Width - 1))

MaxUint == 2 ^ Width - 1

\* type Amount = int64
Amount == MinInt .. MaxInt

\* A value converted or wrapped to int64 (two's complement).
Int64(x) == ((x - MinInt) % Modulus) + MinInt

\* A value converted to int: as wide as int64 on the 64-bit platforms.
ToInt(x) == Int64(x)

\* A value converted or wrapped to uint.
Uint(x) == x % Modulus

Abs(x) == IF x < 0 THEN -x ELSE x

\* Go's integer division: truncated toward zero (b # 0).
TruncDiv(a, b) ==
    IF (a >= 0) = (b > 0) THEN Abs(a) \div Abs(b) ELSE -(Abs(a) \div Abs(b))

(***************************************************************************)
(* The calculation engine (mutate.calc) and the currency registry: used by  *)
(* money.go, defined elsewhere in the package.                              *)
(***************************************************************************)

calc_absolute(a) == Int64(Abs(a))

calc_negative(a) == Int64(-a)

calc_add(a, b) == Int64(a + b)

calc_subtract(a, b) == Int64(a - b)

calc_multiply(a, b) == Int64(a * b)

\* Truncating division; the caller handles b = 0 (a runtime fault).
calc_divide(a, b) == Int64(TruncDiv(a, b))

\* The remainder of the truncating division: it has the sign of a.
calc_modulus(a, b) == a - b * TruncDiv(a, b)

\* Nearest multiple of 10^e, halves away from zero.
calc_round(a, e) ==
    LET exp == 10 ^ e
        rem == Abs(a) % exp
        down == Abs(a) - rem
        near == IF 2 * rem >= exp THEN down + exp ELSE down
    IN  Int64(IF a < 0 THEN -near ELSE near)

\* amount * ratio / sum at extended precision, truncated toward zero;
\* 0 when the sum is 0.
calc_allocate(a, r, s) ==
    IF a = 0 \/ s = 0 THEN 0 ELSE Int64(TruncDiv(a * r, s))

Currencies ==
    { [Code |-> "USD", Fraction |-> 2], [Code |-> "JPY", Fraction |-> 0] }

\* Currency.equals: same code.
Currency_equals(c, oc) == c.Code = oc.Code

\* newCurrency(code).get(): the registry's entry for the code.
newCurrency(code) == CHOOSE c \in Currencies : c.Code = code

(***************************************************************************)
(* Money and the heap                                                      *)
(***************************************************************************)

\* type Money struct { Amount; Currency }
Money == [Amount : Amount, Currency : Currencies]

\* The address of the receiver m of every call.
M == 1

\* The address of the argument om of a two-operand call.
OM == 2

Nil == "nil"

ErrCurrencyMismatch == "currencies don't match"

ErrSplit == "split must be higher than zero"

ErrNoRatios == "no ratios specified"

ErrNegativeRatio == "negative ratios not allowed"

\* &Money{...}: a new object at the next free address.
Alloc(h, v) == Append(h, v)

\* New(amount, code)
New(amount, code) == [Amount |-> amount, Currency |-> newCurrency(code)]

\* What a call hands back: the heap it leaves, the addresses of the Money
\* it returns (<<>> is nil), the bool or int it returns, its error, and
\* whether it ended in a runtime panic instead of returning.
Return(h, ms, b, i, err) ==
    [heap |-> h, ms |-> ms, b |-> b, i |-> i, err |-> err, panic |-> FALSE]

Panic(h) ==
    [heap |-> h, ms |-> <<>>, b |-> FALSE, i |-> 0, err |-> Nil, panic |-> TRUE]

(***************************************************************************)
(* Comparisons                                                             *)
(***************************************************************************)

SameCurrency(m, om) == Currency_equals(m.Currency, om.Currency)

assertSameCurrency_skip(m, om) == Nil

assertSameCurrency(m, om) ==
    IF ~SameCurrency(m, om) THEN ErrCurrencyMismatch ELSE Nil

compare_diff(m, om) == Int64(m.Amount - om.Amount)

compare_ge(m, om) ==
    IF m.Amount >= om.Amount THEN 1
    ELSE IF m.Amount < om.Amount THEN -1
    ELSE 0

compare(m, om) ==
    IF m.Amount > om.Amount THEN 1
    ELSE IF m.Amount < om.Amount THEN -1
    ELSE 0

Equals(h, m, om) ==
    LET err == assertSameCurrency(h[m], h[om])
    IN  IF err # Nil THEN Return(h, <<>>, FALSE, 0, err)
        ELSE Return(h, <<>>, compare(h[m], h[om]) = 0, 0, Nil)

GreaterThan(h, m, om) ==
    LET err == assertSameCurrency(h[m], h[om])
    IN  IF err # Nil THEN Return(h, <<>>, FALSE, 0, err)
        ELSE Return(h, <<>>, compare(h[m], h[om]) = 1, 0, Nil)

GreaterThanOrEqual(h, m, om) ==
    LET err == assertSameCurrency(h[m], h[om])
    IN  IF err # Nil THEN Return(h, <<>>, FALSE, 0, err)
        ELSE Return(h, <<>>, compare(h[m], h[om]) >= 0, 0, Nil)

LessThan(h, m, om) ==
    LET err == assertSameCurrency(h[m], h[om])
    IN  IF err # Nil THEN Return(h, <<>>, FALSE, 0, err)
        ELSE Return(h, <<>>, compare(h[m], h[om]) = -1, 0, Nil)

LessThanOrEqual(h, m, om) ==
    LET err == assertSameCurrency(h[m], h[om])
    IN  IF err # Nil THEN Return(h, <<>>, FALSE, 0, err)
        ELSE Return(h, <<>>, compare(h[m], h[om]) <= 0, 0, Nil)

Compare(h, m, om) ==
    LET err == assertSameCurrency(h[m], h[om])
    IN  IF err # Nil THEN Return(h, <<>>, FALSE, ToInt(h[m].Amount), err)
        ELSE Return(h, <<>>, FALSE, compare(h[m], h[om]), Nil)

(***************************************************************************)
(* Arithmetic: every method returns a new Money                            *)
(***************************************************************************)

Absolute(h, m) ==
    LET new == [Amount |-> calc_absolute(h[m].Amount), Currency |-> h[m].Currency]
    IN  Return(Alloc(h, new), <<Len(h) + 1>>, FALSE, 0, Nil)

Negative(h, m) ==
    LET new == [Amount |-> calc_negative(h[m].Amount), Currency |-> h[m].Currency]
    IN  Return(Alloc(h, new), <<Len(h) + 1>>, FALSE, 0, Nil)

Add(h, m, om) ==
    LET err == assertSameCurrency(h[m], h[om])
        new == [Amount |-> calc_add(h[m].Amount, h[om].Amount),
                Currency |-> h[m].Currency]
    IN  IF err # Nil THEN Return(h, <<>>, FALSE, 0, err)
        ELSE Return(Alloc(h, new), <<Len(h) + 1>>, FALSE, 0, Nil)

Subtract(h, m, om) ==
    LET err == assertSameCurrency(h[m], h[om])
        new == [Amount |-> calc_subtract(h[m].Amount, h[om].Amount),
                Currency |-> h[m].Currency]
    IN  IF err # Nil THEN Return(h, <<>>, FALSE, 0, err)
        ELSE Return(Alloc(h, new), <<Len(h) + 1>>, FALSE, 0, Nil)

\* mv is a temporary Money of the receiver's currency code.
AddByInt64(h, m, val) ==
    LET h1 == Alloc(h, New(val, h[m].Currency.Code))
        mv == Len(h) + 1
        new == [Amount |-> calc_add(h1[m].Amount, h1[mv].Amount),
                Currency |-> h1[m].Currency]
    IN  Return(Alloc(h1, new), <<Len(h1) + 1>>, FALSE, 0, Nil)

SubtractByInt64(h, m, val) ==
    LET h1 == Alloc(h, New(val, h[m].Currency.Code))
        mv == Len(h) + 1
        new == [Amount |-> calc_subtract(h1[m].Amount, h1[mv].Amount),
                Currency |-> h1[m].Currency]
    IN  Return(Alloc(h1, new), <<Len(h1) + 1>>, FALSE, 0, Nil)

Multiply(h, m, mul) ==
    LET new == [Amount |-> calc_multiply(h[m].Amount, mul), Currency |-> h[m].Currency]
    IN  Return(Alloc(h, new), <<Len(h) + 1>>, FALSE, 0, Nil)

\* Integer division by zero is a runtime panic.
Divide(h, m, div) ==
    LET new == [Amount |-> calc_divide(h[m].Amount, div), Currency |-> h[m].Currency]
    IN  IF div = 0 THEN Panic(h)
        ELSE Return(Alloc(h, new), <<Len(h) + 1>>, FALSE, 0, Nil)

Round(h, m) ==
    LET new == [Amount |-> calc_round(h[m].Amount, h[m].Currency.Fraction),
                Currency |-> h[m].Currency]
    IN  Return(Alloc(h, new), <<Len(h) + 1>>, FALSE, 0, Nil)

(***************************************************************************)
(* Split                                                                   *)
(***************************************************************************)

SplitParts_shared(h, m, a, n) ==
    [heap |-> h, ms |-> [i \in 1 .. n |-> m]]

\* ms := make([]*Money, n), each ms[i] a new Money{a, m.Currency}.
SplitParts(h, m, a, n) ==
    [heap |-> h \o [i \in 1 .. n |-> [Amount |-> a, Currency |-> h[m].Currency]],
     ms |-> [i \in 1 .. n |-> Len(h) + i]]

SplitUnit_plus(amount) == 1

\* v := int64(1); if m.Amount < 0 { v = -1 }
SplitUnit(amount) == IF amount < 0 THEN -1 ELSE 1

RECURSIVE SplitLeftover(_, _, _, _, _)

SplitLeftover_skip(h, ms, p, l, v) == [heap |-> h, panic |-> FALSE]

\* for p := 0; l != 0; p++ { ms[p].Amount = add(ms[p].Amount, v); l-- }
\* ms[p] with p past the last part is an index-out-of-range panic.
SplitLeftover(h, ms, p, l, v) ==
    IF l = 0 THEN [heap |-> h, panic |-> FALSE]
    ELSE IF p >= Len(ms) THEN [heap |-> h, panic |-> TRUE]
    ELSE SplitLeftover(
             [h EXCEPT ![ms[p + 1]].Amount = calc_add(@, v)],
             ms, p + 1, Int64(l - 1), v)

Split(h, m, n) ==
    IF n <= 0 THEN Return(h, <<>>, FALSE, 0, ErrSplit)
    ELSE
        LET a == calc_divide(h[m].Amount, Int64(n))
            made == SplitParts(h, m, a, n)
            r == calc_modulus(h[m].Amount, Int64(n))
            l == calc_absolute(r)
            v == SplitUnit(h[m].Amount)
            out == SplitLeftover(made.heap, made.ms, 0, l, v)
        IN  IF out.panic THEN Panic(out.heap)
            ELSE Return(out.heap, made.ms, FALSE, 0, Nil)

(***************************************************************************)
(* Allocate                                                                *)
(***************************************************************************)

HasNegativeRatio_first(rs) == rs[1] < 0

\* for _, r := range rs { if r < 0 { return nil, errors.New(...) } ... }
HasNegativeRatio(rs) == \E i \in 1 .. Len(rs) : rs[i] < 0

RECURSIVE SumRatios(_, _)

\* var sum uint; for _, r := range rs { sum += uint(r) }, over the first k.
SumRatios(rs, k) ==
    IF k = 0 THEN 0 ELSE Uint(SumRatios(rs, k - 1) + Uint(rs[k]))

\* mutate.calc.allocate(m.Amount, uint(r), sum)
AllocateShare(amount, r, sum) == calc_allocate(amount, Uint(r), sum)

\* ms = append(ms, &Money{allocate(...), m.Currency}) for every ratio.
AllocateParts(h, m, rs, sum) ==
    [heap |-> h \o [i \in 1 .. Len(rs) |->
                       [Amount |-> AllocateShare(h[m].Amount, rs[i], sum),
                        Currency |-> h[m].Currency]],
     ms |-> [i \in 1 .. Len(rs) |-> Len(h) + i]]

RECURSIVE AllocateTotal(_, _, _)

\* var total int64; total += party.Amount, over the first k parties.
AllocateTotal(h, ms, k) ==
    IF k = 0 THEN 0 ELSE Int64(AllocateTotal(h, ms, k - 1) + h[ms[k]].Amount)

AllocateUnit_plus(lo) == 1

\* sub := int64(1); if lo < 0 { sub = -sub }
AllocateUnit(lo) == IF lo < 0 THEN -1 ELSE 1

\* if sum == 0 { return ms, nil }
AllocateZeroSum(sum) == sum = 0

RECURSIVE AllocateLeftover(_, _, _, _, _)

RECURSIVE AllocateLeftover_back(_, _, _, _, _)

AllocateLeftover_back(h, ms, p, lo, sub) ==
    IF lo = 0 THEN [heap |-> h, panic |-> FALSE]
    ELSE IF p >= Len(ms) THEN [heap |-> h, panic |-> TRUE]
    ELSE AllocateLeftover_back(
             [h EXCEPT ![ms[Len(ms) - p]].Amount = calc_add(@, sub)],
             ms, p + 1, Int64(lo - sub), sub)

\* for p := 0; lo != 0; p++ { ms[p].Amount = add(ms[p].Amount, sub); lo -= sub }
\* ms[p] with p past the last party is an index-out-of-range panic.
AllocateLeftover(h, ms, p, lo, sub) ==
    IF lo = 0 THEN [heap |-> h, panic |-> FALSE]
    ELSE IF p >= Len(ms) THEN [heap |-> h, panic |-> TRUE]
    ELSE AllocateLeftover(
             [h EXCEPT ![ms[p + 1]].Amount = calc_add(@, sub)],
             ms, p + 1, Int64(lo - sub), sub)

Allocate(h, m, rs) ==
    IF Len(rs) = 0 THEN Return(h, <<>>, FALSE, 0, ErrNoRatios)
    ELSE IF HasNegativeRatio(rs)
    THEN Return(h, <<>>, FALSE, 0, ErrNegativeRatio)
    ELSE
        LET sum == SumRatios(rs, Len(rs))
            made == AllocateParts(h, m, rs, sum)
            total == AllocateTotal(made.heap, made.ms, Len(rs))
            lo == Int64(made.heap[m].Amount - total)
            sub == AllocateUnit(lo)
            out == AllocateLeftover(made.heap, made.ms, 0, lo, sub)
        IN  IF AllocateZeroSum(sum) THEN Return(made.heap, made.ms, FALSE, 0, Nil)
            ELSE IF out.panic THEN Panic(out.heap)
            ELSE Return(out.heap, made.ms, FALSE, 0, Nil)

(***************************************************************************)
(* The caller: one receiver, one call at a time                            *)
(***************************************************************************)

\* The scalar arguments tried: the extremes of the width and values near 0.
Scalars == {MinInt, -1, 0, 1, 2, MaxInt}

\* The part counts handed to Split: every int.
SplitCounts == MinInt .. MaxInt

\* The ratios tried: a negative one, small ones, and the largest ints.
RatioValues == {-1, 0, 1, 2, MaxInt - 1, MaxInt}

RatioLists == UNION {[1 .. k -> RatioValues] : k \in 0 .. MaxLen}

Idle ==
    [op |-> "idle", om |-> <<>>, arg |-> 0, rs |-> <<>>,
     ms |-> <<>>, b |-> FALSE, i |-> 0, err |-> Nil, panic |-> FALSE]

\* The record of a finished call: the method, the argument Money as passed
\* (<<>> when the method takes none), the scalar argument, the ratio list,
\* and what the method returned.
Done(op, om, arg, rs, out) ==
    [op |-> op, om |-> om, arg |-> arg, rs |-> rs,
     ms |-> out.ms, b |-> out.b, i |-> out.i, err |-> out.err, panic |-> out.panic]

\* The receiver is any Money; nothing has been called yet.
Init ==
    /\ heap \in {<<m>> : m \in Money}
    /\ ret = Idle

\* A call of a method taking another Money: om is the caller's object.
Call2(op, om, out) ==
    /\ ret.op = "idle"
    /\ heap' = out.heap
    /\ ret' = Done(op, <<om>>, 0, <<>>, out)

\* A call of a method taking no Money argument.
Call1(op, arg, rs, out) ==
    /\ ret.op = "idle"
    /\ heap' = out.heap
    /\ ret' = Done(op, <<>>, arg, rs, out)

CallEquals ==
    \E om \in Money : Call2("Equals", om, Equals(Alloc(heap, om), M, OM))

CallGreaterThan ==
    \E om \in Money : Call2("GreaterThan", om, GreaterThan(Alloc(heap, om), M, OM))

CallGreaterThanOrEqual ==
    \E om \in Money :
        Call2("GreaterThanOrEqual", om, GreaterThanOrEqual(Alloc(heap, om), M, OM))

CallLessThan ==
    \E om \in Money : Call2("LessThan", om, LessThan(Alloc(heap, om), M, OM))

CallLessThanOrEqual ==
    \E om \in Money :
        Call2("LessThanOrEqual", om, LessThanOrEqual(Alloc(heap, om), M, OM))

CallCompare ==
    \E om \in Money : Call2("Compare", om, Compare(Alloc(heap, om), M, OM))

CallAdd ==
    \E om \in Money : Call2("Add", om, Add(Alloc(heap, om), M, OM))

CallSubtract ==
    \E om \in Money : Call2("Subtract", om, Subtract(Alloc(heap, om), M, OM))

CallAbsolute == Call1("Absolute", 0, <<>>, Absolute(heap, M))

CallNegative == Call1("Negative", 0, <<>>, Negative(heap, M))

CallRound == Call1("Round", 0, <<>>, Round(heap, M))

CallAddByInt64 ==
    \E val \in Scalars : Call1("AddByInt64", val, <<>>, AddByInt64(heap, M, val))

CallSubtractByInt64 ==
    \E val \in Scalars :
        Call1("SubtractByInt64", val, <<>>, SubtractByInt64(heap, M, val))

CallMultiply ==
    \E mul \in Scalars : Call1("Multiply", mul, <<>>, Multiply(heap, M, mul))

CallDivide ==
    \E div \in Scalars : Call1("Divide", div, <<>>, Divide(heap, M, div))

CallSplit ==
    \E n \in SplitCounts : Call1("Split", n, <<>>, Split(heap, M, n))

CallAllocate ==
    \E rs \in RatioLists : Call1("Allocate", 0, rs, Allocate(heap, M, rs))

\* The caller drops the results; only the receiver stays referenced.
Discard ==
    /\ ret.op # "idle"
    /\ heap' = <<heap[M]>>
    /\ ret' = Idle

Next ==
    \/ CallEquals
    \/ CallGreaterThan
    \/ CallGreaterThanOrEqual
    \/ CallLessThan
    \/ CallLessThanOrEqual
    \/ CallCompare
    \/ CallAdd
    \/ CallSubtract
    \/ CallAbsolute
    \/ CallNegative
    \/ CallRound
    \/ CallAddByInt64
    \/ CallSubtractByInt64
    \/ CallMultiply
    \/ CallDivide
    \/ CallSplit
    \/ CallAllocate
    \/ Discard

Spec == Init /\ [][Next]_vars

(***************************************************************************)
(* Vocabulary of the properties                                            *)
(***************************************************************************)

RECURSIVE SumTo(_, _)

\* The exact (unbounded) sum of the first k elements of a sequence.
SumTo(s, k) == IF k = 0 THEN 0 ELSE SumTo(s, k - 1) + s[k]

Sum(s) == SumTo(s, Len(s))

\* The amounts of the Money the last call returned, in order.
Parts == [i \in 1 .. Len(ret.ms) |-> heap[ret.ms[i]].Amount]

Sign(x) == IF x < 0 THEN -1 ELSE 1

Succeeded == ~ret.panic /\ ret.err = Nil

\* An error return with no parts: nothing returned, nothing created.
Rejected == ~ret.panic /\ ret.err # Nil /\ ret.ms = <<>> /\ Len(heap) = 1

SplitCalled == ret.op = "Split" /\ ret.arg > 0

\* Allocate was called with a non-empty list of non-negative ratios.
AllocateCalled ==
    /\ ret.op = "Allocate"
    /\ Len(ret.rs) > 0
    /\ \A i \in 1 .. Len(ret.rs) : ret.rs[i] >= 0

IsBoolOp ==
    ret.op \in {"Equals", "GreaterThan", "GreaterThanOrEqual",
                "LessThan", "LessThanOrEqual"}

IsSumOp == ret.op \in {"Add", "Subtract"}

\* The argument's currency differs from the receiver's.
Mismatch == ret.om # <<>> /\ heap[M].Currency.Code # ret.om[1].Currency.Code

(***************************************************************************)
(* Properties                                                              *)
(***************************************************************************)

\* C1: for every amount and every n > 0, Split(n) returns without error
\* exactly n parts whose amounts sum to exactly the receiver's amount.
C1_SplitSum ==
    SplitCalled =>
        /\ Succeeded
        /\ Len(ret.ms) = ret.arg
        /\ Sum(Parts) = heap[M].Amount

\* A negative amount split three ways with a leftover.
C1_Witness ==
    /\ SplitCalled /\ Succeeded
    /\ ret.arg = 3
    /\ heap[M].Amount = MinInt
    /\ Sum(Parts) = MinInt

\* C2 as stated: for every amount and every non-empty list of non-negative
\* ratios, all-zero lists included, Allocate returns without error parts
\* whose amounts sum to exactly the receiver's amount.
C2_AllocateSum_Stated ==
    AllocateCalled => (Succeeded /\ Sum(Parts) = heap[M].Amount)

\* C2 as amended: with all ratios zero Allocate returns one part of amount 0
\* per ratio (they sum to 0, not to the receiver's amount); with a ratio sum
\* from 1 to the largest uint it returns one part per ratio and the parts sum
\* to exactly the receiver's amount; with a ratio sum that wraps the uint
\* accumulator it may panic, and when it returns, the parts are all 0 if the
\* wrapped sum is 0 and otherwise sum to the receiver's amount modulo 2^Width.
C2_AllocateSum ==
    AllocateCalled =>
        LET total == Sum(ret.rs)
            zeros == [i \in 1 .. Len(ret.rs) |-> 0]
        IN  /\ total = 0 => (Succeeded /\ Parts = zeros)
            /\ total \in 1 .. MaxUint =>
                   /\ Succeeded
                   /\ Len(ret.ms) = Len(ret.rs)
                   /\ Sum(Parts) = heap[M].Amount
            /\ (total > MaxUint /\ ~ret.panic) =>
                   /\ ret.err = Nil
                   /\ Len(ret.ms) = Len(ret.rs)
                   /\ IF Uint(total) = 0 THEN Parts = zeros
                      ELSE Int64(Sum(Parts)) = heap[M].Amount

\* A non-zero amount allocated over all-zero ratios: the parts are zeros.
C2_Witness ==
    /\ AllocateCalled /\ Succeeded
    /\ ret.rs = <<0, 0>>
    /\ heap[M].Amount = MaxInt
    /\ Parts = <<0, 0>>

\* C3: with different currencies Equals, GreaterThan, GreaterThanOrEqual,
\* LessThan and LessThanOrEqual return (false, ErrCurrencyMismatch) and Add
\* and Subtract return (nil, ErrCurrencyMismatch), creating no Money; with
\* the same currency none of them returns an error.
C3_CurrencyChecked ==
    /\ IsBoolOp =>
           IF Mismatch
           THEN ~ret.panic /\ ret.b = FALSE /\ ret.err = ErrCurrencyMismatch
           ELSE Succeeded
    /\ IsSumOp =>
           IF Mismatch
           THEN /\ ~ret.panic /\ ret.err = ErrCurrencyMismatch
                /\ ret.ms = <<>> /\ Len(heap) = 2
           ELSE Succeeded /\ Len(ret.ms) = 1

\* GreaterThanOrEqual of a larger amount against another currency.
C3_Witness ==
    /\ ret.op = "GreaterThanOrEqual" /\ Mismatch
    /\ heap[M].Amount > ret.om[1].Amount
    /\ ret.b = FALSE /\ ret.err = ErrCurrencyMismatch

\* C4: for a receiver and an argument of the same currency exactly one of
\* LessThan, Equals, GreaterThan returns true; GreaterThanOrEqual is true iff
\* GreaterThan or Equals is, and LessThanOrEqual iff LessThan or Equals is.
C4_Trichotomy ==
    (IsBoolOp /\ ~Mismatch) =>
        LET lt == LessThan(heap, M, OM)
            eq == Equals(heap, M, OM)
            gt == GreaterThan(heap, M, OM)
            ge == GreaterThanOrEqual(heap, M, OM)
            le == LessThanOrEqual(heap, M, OM)
        IN  /\ \A r \in {lt, eq, gt, ge, le} : r.err = Nil
            /\ Cardinality({k \in 1 .. 3 : <<lt.b, eq.b, gt.b>>[k]}) = 1
            /\ ge.b <=> (gt.b \/ eq.b)
            /\ le.b <=> (lt.b \/ eq.b)

\* LessThan returned true for a same-currency pair.
C4_Witness ==
    /\ ret.op = "LessThan" /\ ~Mismatch
    /\ ret.b = TRUE
    /\ heap[M].Amount < heap[OM].Amount

\* C5: with the same currency Compare returns (1, nil), (0, nil) or (-1, nil)
\* as the receiver's amount is greater than, equal to or less than the
\* argument's; with different currencies it returns the receiver's raw amount
\* together with ErrCurrencyMismatch.
C5_Compare ==
    ret.op = "Compare" =>
        /\ ~ret.panic
        /\ IF Mismatch
           THEN ret.err = ErrCurrencyMismatch /\ ret.i = heap[M].Amount
           ELSE /\ ret.err = Nil
                /\ ret.i = (IF heap[M].Amount > heap[OM].Amount THEN 1
                            ELSE IF heap[M].Amount = heap[OM].Amount THEN 0
                            ELSE -1)

\* A mismatched Compare whose int result is outside {-1, 0, 1}.
C5_Witness ==
    /\ ret.op = "Compare" /\ Mismatch
    /\ ret.err = ErrCurrencyMismatch
    /\ ret.i = MaxInt /\ ret.i \notin {-1, 0, 1}

\* C6: Split(n) with n <= 0, Allocate with no ratios and Allocate with a
\* negative ratio anywhere in the list return (nil, error) and create no part,
\* whatever the amount and the other ratios.
C6_InvalidRejected ==
    /\ (ret.op = "Split" /\ ret.arg <= 0) => Rejected
    /\ (ret.op = "Allocate" /\ Len(ret.rs) = 0) => Rejected
    /\ (ret.op = "Allocate" /\ \E i \in 1 .. Len(ret.rs) : ret.rs[i] < 0) => Rejected

\* A negative ratio after valid ones.
C6_Witness ==
    /\ ret.op = "Allocate" /\ Rejected
    /\ ret.rs = <<MaxInt, 1, -1>>
    /\ ret.err = ErrNegativeRatio

\* C7: no call changes the receiver or the argument; every Money a call
\* returns is a new object, distinct from the others, with the receiver's
\* currency (so the leftover loops write to the new parts only).
C7_Immutable ==
    [][ /\ heap'[M] = heap[M]
        /\ ret'.om # <<>> => heap'[OM] = ret'.om[1]
        /\ \A i \in 1 .. Len(ret'.ms) :
               /\ ret'.ms[i] > Len(ret'.om) + 1
               /\ ret'.ms[i] <= Len(heap')
               /\ heap'[ret'.ms[i]].Currency = heap[M].Currency
               /\ \A j \in 1 .. Len(ret'.ms) : ret'.ms[i] = ret'.ms[j] => i = j
      ]_vars

\* Split wrote a leftover unit into its first part and left the receiver be.
C7_Witness ==
    /\ SplitCalled /\ Succeeded
    /\ ret.arg = 2
    /\ heap[M] = [Amount |-> MaxInt, Currency |-> newCurrency("JPY")]
    /\ Parts[1] = Parts[2] + 1
    /\ ret.ms = <<2, 3>>

\* C8: Split(n) with n > 0 yields base = amount / n truncated toward zero;
\* the first |amount mod n| parts are base + s and the others base, with
\* s = 1 for amount >= 0 and -1 otherwise; |amount mod n| < n and the leftover
\* loop ends without indexing past the last part.
C8_SplitShape ==
    SplitCalled =>
        LET amount == heap[M].Amount
            n == ret.arg
            base == TruncDiv(amount, n)
            k == Abs(amount - n * base)
            s == IF amount >= 0 THEN 1 ELSE -1
        IN  /\ Succeeded
            /\ k < n
            /\ Parts = [i \in 1 .. n |-> IF i <= k THEN base + s ELSE base]

\* -7 split three ways is <<-3, -2, -2>>.
C8_Witness ==
    /\ SplitCalled
    /\ heap[M].Amount = -MaxInt
    /\ ret.arg = 3
    /\ Parts = <<-(MaxInt \div 3) - 1, -(MaxInt \div 3), -(MaxInt \div 3)>>

\* C9: Allocate with non-empty non-negative ratios of sum > 0: the leftover
\* lo = amount - sum of the truncated shares amount*ratio/sum has |lo| <
\* len(ratios), the loop ends without indexing past the last party, and the
\* first |lo| parties get share + sign(lo), the others their share.
C9_AllocateShape ==
    (AllocateCalled /\ Sum(ret.rs) > 0) =>
        LET amount == heap[M].Amount
            total == Sum(ret.rs)
            share == [i \in 1 .. Len(ret.rs) |-> TruncDiv(amount * ret.rs[i], total)]
            lo == amount - Sum(share)
        IN  /\ Succeeded
            /\ Abs(lo) < Len(ret.rs)
            /\ Parts = [i \in 1 .. Len(ret.rs) |->
                           IF i <= Abs(lo) THEN share[i] + Sign(lo) ELSE share[i]]

\* The leftover as Allocate computes it, in its own arithmetic.
Leftover(amount, rs) ==
    LET sum == Uint(Sum(rs))
        share == [i \in 1 .. Len(rs) |->
                     IF sum = 0 THEN 0 ELSE Int64(TruncDiv(amount * rs[i], sum))]
    IN  IF sum = 0 THEN 0 ELSE Int64(amount - Sum(share))

\* C10 as stated: in Allocate with at least one positive ratio, a party whose
\* ratio is 0 receives an amount of 0.
C10_ZeroRatio_Stated ==
    (AllocateCalled /\ Succeeded /\ \E j \in 1 .. Len(ret.rs) : ret.rs[j] > 0) =>
        \A i \in 1 .. Len(ret.rs) : ret.rs[i] = 0 => Parts[i] = 0

\* C10 as amended: in Allocate with at least one positive ratio, a party whose
\* ratio is 0 has a share of 0 but is not skipped by the leftover loop: when
\* Allocate returns, the party at (0-based) index i receives sign(lo) if
\* i < |lo| and 0 otherwise, lo being the leftover Allocate computes.
C10_ZeroRatio ==
    (AllocateCalled /\ Succeeded /\ \E j \in 1 .. Len(ret.rs) : ret.rs[j] > 0) =>
        LET lo == Leftover(heap[M].Amount, ret.rs)
        IN  \A i \in 1 .. Len(ret.rs) :
                ret.rs[i] = 0 =>
                    Parts[i] = (IF i <= Abs(lo) THEN Sign(lo) ELSE 0)

\* 1 allocated 0:1:1 is <<1, 0, 0>>: the zero-ratio party gets the unit.
C10_Witness ==
    /\ AllocateCalled /\ Succeeded
    /\ ret.rs = <<0, 1, 1>>
    /\ heap[M].Amount = 1
    /\ Parts = <<1, 0, 0>>

=============================================================================
